---- MODULE Spec2Model ----
(***************************************************************************)
(* A model of the per-key rate limiter of src/rate-limiter.go.             *)
(*                                                                         *)
(* The limiter is a table (RateLimiter.entries, guarded by RateLimiter.mu) *)
(* of entries (rateLimiterEntry: mu, uses, maxUses, recovery, expiresAt).  *)
(* Goroutines call Set, Allow, Wait and WaitOrSet; every lock operation,   *)
(* every reading of the clock outside the table lock, every decision and   *)
(* the sleep of Wait is a step of its own, so that all interleavings of    *)
(* the calls, of the writes of Set and of the clock are explored.  Time is *)
(* the integer clock read by time.Now(); durations are integers in the     *)
(* same unit.                                                              *)
(*                                                                         *)
(* Set writes maxUses and recovery of an existing entry while holding only *)
(* the table lock, Allow and Wait read them while holding only the entry   *)
(* lock: the two writes are separate steps, so a racing reader sees the    *)
(* old or the new value of each field.                                      *)
(***************************************************************************)
EXTENDS Integers, FiniteSets, Sequences, TLC

(* ------------------------------ bounds --------------------------------- *)

\* Goroutines calling the limiter.
NThreads == 2
\* New calls start only while the clock is below MaxTime.
MaxTime == 2

Threads == 1..NThreads
Keys == {"a", "b"}
\* Values passed as maxUses and as recovery (non-positive ones included).
MaxUsesVals == {0, 1, 2}
RecoveryVals == {0, 1}
Ops == {"Set", "Allow", "Wait", "WaitOrSet"}

NoThread == 0

VARIABLES
    clock,      \* the value time.Now() returns
    rlmu,       \* RateLimiter.mu: the goroutine holding it, or NoThread
    entries,    \* RateLimiter.entries: key -> entry, defined on the keys present
    pc,         \* per goroutine: its position in the call it runs
    op,         \* per goroutine: the method it runs
    key,        \* per goroutine: the key argument
    argMax,     \* per goroutine: the maxUses argument (Set, WaitOrSet)
    argRec,     \* per goroutine: the recovery argument (Set, WaitOrSet)
    found,      \* per goroutine: the local "exists" of the table lookup
    tnow,       \* per goroutine: the local "now"
    waitTime,   \* per goroutine: the local "waitTime" of Wait
    wakeAt,     \* per goroutine: the instant from which the time.Sleep it is in may return
    ret,        \* per goroutine: the value Allow returns
    hist,       \* per goroutine: what the running call has done so far (history)
    win,        \* per key: the uses granted since the entry's last rollover or creation (history)
    cfg         \* per key: how the entry got its configuration (history)

vars == <<clock, rlmu, entries, pc, op, key, argMax, argRec, found, tnow,
          waitTime, wakeAt, ret, hist, win, cfg>>

\* The locals of a goroutine, as one tuple.
locals == <<op, key, argMax, argRec, found, tnow, waitTime, wakeAt, ret, hist>>

(* --------------------------- the entry --------------------------------- *)

\* Some definitions below are preceded by a faulty variant of theirs, which
\* no specification uses: a property that says something about a definition
\* fails once the definition is replaced by its faulty variant.

\* rateLimiterEntry as Set creates it: no use consumed, the window ends now.
NewEntrySet(maxUses, recovery, now) ==
    [mu |-> NoThread, uses |-> 0, maxUses |-> maxUses,
     recovery |-> recovery, expiresAt |-> now]

\* Faulty variant: the first use is not counted.
NewEntryWaitOrSetUnused(maxUses, recovery, now) ==
    [mu |-> NoThread, uses |-> 0, maxUses |-> maxUses,
     recovery |-> recovery, expiresAt |-> now + recovery]

\* rateLimiterEntry as WaitOrSet creates it: the first use already consumed.
NewEntryWaitOrSet(maxUses, recovery, now) ==
    [mu |-> NoThread, uses |-> 1, maxUses |-> maxUses,
     recovery |-> recovery, expiresAt |-> now + recovery]

\* now.After(e.expiresAt): strictly later.
Expired(e, now) == now > e.expiresAt

\* Faulty variant: the rollover counts its use on top of the old ones.
RolloverKeepsUses(e, now) ==
    [e EXCEPT !.uses = @ + 1, !.expiresAt = now + e.recovery]

\* Faulty variant: the rollover empties the window and forgets its own use.
RolloverToZero(e, now) == [e EXCEPT !.uses = 0, !.expiresAt = now + e.recovery]

\* e.uses = 1; e.expiresAt = now.Add(e.recovery)
Rollover(e, now) == [e EXCEPT !.uses = 1, !.expiresAt = now + e.recovery]

\* Faulty variant: off by one, a use is granted at uses = maxUses.
HasRoomInclusive(e) == e.uses <= e.maxUses

\* Faulty variant: off by one the other way, the last use is never granted.
HasRoomShort(e) == e.uses + 1 < e.maxUses

\* e.uses < e.maxUses
HasRoom(e) == e.uses < e.maxUses

\* Faulty variant: the increment is lost.
IncrementLost(e) == e

\* e.uses++
Increment(e) == [e EXCEPT !.uses = @ + 1]

\* Faulty variant: the quota is tested before the expiry, and a quota that is
\* not positive denies the use in every window.
ConsumeQuotaFirst(e, now) ==
    IF e.maxUses <= 0 THEN [e |-> e, ok |-> FALSE, how |-> "denied"]
    ELSE IF Expired(e, now) THEN [e |-> Rollover(e, now), ok |-> TRUE, how |-> "roll"]
    ELSE IF HasRoom(e) THEN [e |-> Increment(e), ok |-> TRUE, how |-> "inc"]
    ELSE [e |-> e, ok |-> FALSE, how |-> "denied"]

\* The consume-or-reject decision of Allow and of one iteration of Wait, on
\* entry e at the instant now: the entry it leaves, whether the use is granted,
\* and by which branch.
Consume(e, now) ==
    IF Expired(e, now) THEN [e |-> Rollover(e, now), ok |-> TRUE, how |-> "roll"]
    ELSE IF HasRoom(e) THEN [e |-> Increment(e), ok |-> TRUE, how |-> "inc"]
    ELSE [e |-> e, ok |-> FALSE, how |-> "denied"]

(* --------------------------- histories --------------------------------- *)

\* What a call has done so far: the branch its last attempt took, the uses it
\* consumed, whether it called time.Sleep, and the expiresAt its last
\* time.Until read.
FreshHist == [how |-> "none", grants |-> 0, slept |-> FALSE, until |-> 0]

\* The uses granted on key k in the window an attempt at instant now on entry
\* e falls in, before that attempt: win[k] counts the grants since the entry's
\* last rollover or creation, and an attempt that finds the window expired
\* opens a new one.
GrantsBefore(k, e, now) == IF Expired(e, now) THEN 0 ELSE win[k]

\* win[k] after an attempt at instant now on entry e of key k.
GrantsAfter(k, e, now) ==
    IF Consume(e, now).ok THEN GrantsBefore(k, e, now) + 1 ELSE win[k]

\* cfg[k] tells how the entry of key k got its configuration: "set" or "wos"
\* while it is as Set or WaitOrSet created it, "lowered" from the first Set on
\* that wrote a smaller maxUses, "raised" while the window lasts in which a
\* Set wrote a larger maxUses over an exhausted quota, "reconf" otherwise.
\* This is cfg[k] once Set, at instant now, has written maxUses over entry e.
Reconfigured(k, e, maxUses, now) ==
    IF maxUses < e.maxUses \/ cfg[k] = "lowered" THEN "lowered"
    ELSE IF maxUses > e.maxUses /\ e.uses = e.maxUses /\ ~Expired(e, now)
         THEN "raised"
    ELSE IF cfg[k] = "raised" THEN "raised"
    ELSE "reconf"

\* cfg[k] after an attempt at instant now on entry e of key k.
CfgAfter(k, e, now) ==
    IF cfg[k] = "raised" /\ Expired(e, now) THEN "reconf" ELSE cfg[k]

AfterAttempt(h, e, now) ==
    LET c == Consume(e, now) IN
    [h EXCEPT !.how = c.how, !.grants = IF c.ok THEN @ + 1 ELSE @]

(* ----------------------------- Init ------------------------------------ *)

IdleLocals(t) ==
    /\ op' = [op EXCEPT ![t] = "none"]
    /\ key' = [key EXCEPT ![t] = "a"]
    /\ argMax' = [argMax EXCEPT ![t] = 0]
    /\ argRec' = [argRec EXCEPT ![t] = 0]
    /\ found' = [found EXCEPT ![t] = FALSE]
    /\ tnow' = [tnow EXCEPT ![t] = 0]
    /\ waitTime' = [waitTime EXCEPT ![t] = 0]
    /\ wakeAt' = [wakeAt EXCEPT ![t] = 0]
    /\ ret' = [ret EXCEPT ![t] = FALSE]
    /\ hist' = [hist EXCEPT ![t] = FreshHist]

\* NewRateLimiter: an empty table; no goroutine has called anything yet.
Init ==
    /\ clock = 0
    /\ rlmu = NoThread
    /\ entries = << >>
    /\ pc = [t \in Threads |-> "idle"]
    /\ op = [t \in Threads |-> "none"]
    /\ key = [t \in Threads |-> "a"]
    /\ argMax = [t \in Threads |-> 0]
    /\ argRec = [t \in Threads |-> 0]
    /\ found = [t \in Threads |-> FALSE]
    /\ tnow = [t \in Threads |-> 0]
    /\ waitTime = [t \in Threads |-> 0]
    /\ wakeAt = [t \in Threads |-> 0]
    /\ ret = [t \in Threads |-> FALSE]
    /\ hist = [t \in Threads |-> FreshHist]
    /\ win = [k \in Keys |-> 0]
    /\ cfg = [k \in Keys |-> "none"]

Present(k) == k \in DOMAIN entries

\* The table with key k bound to entry e.
Put(k, e) == [x \in (DOMAIN entries) \cup {k} |-> IF x = k THEN e ELSE entries[x]]

(* --------------------------- the caller -------------------------------- *)

FirstPc(o) ==
    CASE o = "Set" -> "set_lock"
      [] o = "Allow" -> "allow_lock"
      [] o = "Wait" -> "wait_lock"
      [] o = "WaitOrSet" -> "wos_lock"

TakesConfig(o) == o \in {"Set", "WaitOrSet"}

\* A goroutine that is not inside a call makes its next call: a method on a
\* key of KS, with a configuration, where the method takes one, of MS and RS.
StartOn(t, KS, MS, RS) ==
    /\ pc[t] = "idle"
    /\ clock < MaxTime
    /\ \E o \in Ops, k \in KS :
       \E m \in (IF TakesConfig(o) THEN MS ELSE {0}),
          r \in (IF TakesConfig(o) THEN RS ELSE {0}) :
          /\ op' = [op EXCEPT ![t] = o]
          /\ key' = [key EXCEPT ![t] = k]
          /\ argMax' = [argMax EXCEPT ![t] = m]
          /\ argRec' = [argRec EXCEPT ![t] = r]
          /\ pc' = [pc EXCEPT ![t] = FirstPc(o)]
    /\ UNCHANGED <<clock, rlmu, entries, found, tnow, waitTime, wakeAt, ret,
                   hist, win, cfg>>

(* ------------------------------- Set ----------------------------------- *)

\* rl.mu.Lock()
SetLock(t) ==
    /\ pc[t] = "set_lock"
    /\ rlmu = NoThread
    /\ rlmu' = t
    /\ pc' = [pc EXCEPT ![t] = "set_body"]
    /\ UNCHANGED <<clock, entries, locals, win, cfg>>

\* Faulty variant: Set on a key that has an entry replaces the entry by a
\* new one.
SetBodyReplaces(t) ==
    /\ pc[t] = "set_body"
    /\ found' = [found EXCEPT ![t] = Present(key[t])]
    /\ entries' = Put(key[t], NewEntrySet(argMax[t], argRec[t], clock))
    /\ tnow' = [tnow EXCEPT ![t] = clock]
    /\ win' = [win EXCEPT ![key[t]] = 0]
    /\ cfg' = [cfg EXCEPT ![key[t]] = "set"]
    /\ pc' = [pc EXCEPT ![t] = "set_unlock"]
    /\ UNCHANGED <<clock, rlmu, op, key, argMax, argRec, waitTime, wakeAt,
                   ret, hist>>

\* Faulty variant: Set on a key that has an entry writes recovery alone.
SetBodyKeepsQuota(t) ==
    /\ pc[t] = "set_body"
    /\ found' = [found EXCEPT ![t] = Present(key[t])]
    /\ IF ~Present(key[t])
       THEN /\ entries' = Put(key[t], NewEntrySet(argMax[t], argRec[t], clock))
            /\ tnow' = [tnow EXCEPT ![t] = clock]
            /\ win' = [win EXCEPT ![key[t]] = 0]
            /\ cfg' = [cfg EXCEPT ![key[t]] = "set"]
            /\ pc' = [pc EXCEPT ![t] = "set_unlock"]
       ELSE /\ cfg' = [cfg EXCEPT ![key[t]] =
                         Reconfigured(key[t], entries[key[t]], argMax[t], clock)]
            /\ pc' = [pc EXCEPT ![t] = "set_recovery"]
            /\ UNCHANGED <<entries, tnow, win>>
    /\ UNCHANGED <<clock, rlmu, op, key, argMax, argRec, waitTime, wakeAt,
                   ret, hist>>

\* e, exists := rl.entries[key]; then either the insert of a new entry, or the
\* write of e.maxUses.
SetBody(t) ==
    /\ pc[t] = "set_body"
    /\ found' = [found EXCEPT ![t] = Present(key[t])]
    /\ IF ~Present(key[t])
       THEN /\ entries' = Put(key[t], NewEntrySet(argMax[t], argRec[t], clock))
            /\ tnow' = [tnow EXCEPT ![t] = clock]
            /\ win' = [win EXCEPT ![key[t]] = 0]
            /\ cfg' = [cfg EXCEPT ![key[t]] = "set"]
            /\ pc' = [pc EXCEPT ![t] = "set_unlock"]
       ELSE /\ entries' = [entries EXCEPT ![key[t]].maxUses = argMax[t]]
            /\ cfg' = [cfg EXCEPT ![key[t]] =
                         Reconfigured(key[t], entries[key[t]], argMax[t], clock)]
            /\ pc' = [pc EXCEPT ![t] = "set_recovery"]
            /\ UNCHANGED <<tnow, win>>
    /\ UNCHANGED <<clock, rlmu, op, key, argMax, argRec, waitTime, wakeAt,
                   ret, hist>>

\* e.recovery = recovery
SetRecovery(t) ==
    /\ pc[t] = "set_recovery"
    /\ entries' = [entries EXCEPT ![key[t]].recovery = argRec[t]]
    /\ pc' = [pc EXCEPT ![t] = "set_unlock"]
    /\ UNCHANGED <<clock, rlmu, locals, win, cfg>>

\* The deferred rl.mu.Unlock(), and the return.
SetUnlock(t) ==
    /\ pc[t] = "set_unlock"
    /\ rlmu' = NoThread
    /\ pc' = [pc EXCEPT ![t] = "idle"]
    /\ IdleLocals(t)
    /\ UNCHANGED <<clock, entries, win, cfg>>

(* ------------------------------ Allow ---------------------------------- *)

\* rl.mu.Lock()
AllowLock(t) ==
    /\ pc[t] = "allow_lock"
    /\ rlmu = NoThread
    /\ rlmu' = t
    /\ pc' = [pc EXCEPT ![t] = "allow_lookup"]
    /\ UNCHANGED <<clock, entries, locals, win, cfg>>

\* Faulty variant: the table lock is released on the miss alone.
AllowLookupKeepsLock(t) ==
    /\ pc[t] = "allow_lookup"
    /\ found' = [found EXCEPT ![t] = Present(key[t])]
    /\ rlmu' = IF Present(key[t]) THEN rlmu ELSE NoThread
    /\ ret' = [ret EXCEPT ![t] = ~Present(key[t])]
    /\ pc' = [pc EXCEPT ![t] = IF Present(key[t]) THEN "allow_elock" ELSE "allow_return"]
    /\ UNCHANGED <<clock, entries, op, key, argMax, argRec, tnow, waitTime,
                   wakeAt, hist, win, cfg>>

\* Faulty variant: a missing key gets an entry (get-or-create).
AllowLookupCreates(t) ==
    /\ pc[t] = "allow_lookup"
    /\ found' = [found EXCEPT ![t] = Present(key[t])]
    /\ rlmu' = NoThread
    /\ ret' = [ret EXCEPT ![t] = ~Present(key[t])]
    /\ entries' = IF Present(key[t]) THEN entries
                  ELSE Put(key[t], NewEntrySet(0, 0, clock))
    /\ pc' = [pc EXCEPT ![t] = IF Present(key[t]) THEN "allow_elock" ELSE "allow_return"]
    /\ UNCHANGED <<clock, op, key, argMax, argRec, tnow, waitTime,
                   wakeAt, hist, win, cfg>>

\* e, exists := rl.entries[key]; rl.mu.Unlock(); a missing key makes the
\* call return true.
AllowLookup(t) ==
    /\ pc[t] = "allow_lookup"
    /\ found' = [found EXCEPT ![t] = Present(key[t])]
    /\ rlmu' = NoThread
    /\ ret' = [ret EXCEPT ![t] = ~Present(key[t])]
    /\ pc' = [pc EXCEPT ![t] = IF Present(key[t]) THEN "allow_elock" ELSE "allow_return"]
    /\ UNCHANGED <<clock, entries, op, key, argMax, argRec, tnow, waitTime,
                   wakeAt, hist, win, cfg>>

\* e.mu.Lock()
AllowEntryLock(t) ==
    /\ pc[t] = "allow_elock"
    /\ entries[key[t]].mu = NoThread
    /\ entries' = [entries EXCEPT ![key[t]].mu = t]
    /\ pc' = [pc EXCEPT ![t] = "allow_now"]
    /\ UNCHANGED <<clock, rlmu, locals, win, cfg>>

\* now := time.Now()
AllowNow(t) ==
    /\ pc[t] = "allow_now"
    /\ tnow' = [tnow EXCEPT ![t] = clock]
    /\ pc' = [pc EXCEPT ![t] = "allow_check"]
    /\ UNCHANGED <<clock, rlmu, entries, op, key, argMax, argRec, found,
                   waitTime, wakeAt, ret, hist, win, cfg>>

\* The consume-or-reject decision, on the entry as it is now and the instant
\* read before: the clock may have advanced, and Set may have written maxUses
\* or recovery, since now was read.
AllowCheck(t) ==
    /\ pc[t] = "allow_check"
    /\ LET k == key[t]
           e == entries[k]
           c == Consume(e, tnow[t])
       IN /\ entries' = [entries EXCEPT ![k] = c.e]
          /\ ret' = [ret EXCEPT ![t] = c.ok]
          /\ hist' = [hist EXCEPT ![t] = AfterAttempt(@, e, tnow[t])]
          /\ win' = [win EXCEPT ![k] = GrantsAfter(k, e, tnow[t])]
          /\ cfg' = [cfg EXCEPT ![k] = CfgAfter(k, e, tnow[t])]
    /\ pc' = [pc EXCEPT ![t] = "allow_unlock"]
    /\ UNCHANGED <<clock, rlmu, op, key, argMax, argRec, found, tnow, waitTime,
                   wakeAt>>

\* The deferred e.mu.Unlock(); Allow returns ret to its caller.
AllowUnlock(t) ==
    /\ pc[t] = "allow_unlock"
    /\ entries' = [entries EXCEPT ![key[t]].mu = NoThread]
    /\ pc' = [pc EXCEPT ![t] = "idle"]
    /\ IdleLocals(t)
    /\ UNCHANGED <<clock, rlmu, win, cfg>>

\* Allow returns true for a key that has no entry.
AllowReturn(t) ==
    /\ pc[t] = "allow_return"
    /\ pc' = [pc EXCEPT ![t] = "idle"]
    /\ IdleLocals(t)
    /\ UNCHANGED <<clock, rlmu, entries, win, cfg>>

(* ------------------------------- Wait ---------------------------------- *)

\* rl.mu.Lock()
WaitLock(t) ==
    /\ pc[t] = "wait_lock"
    /\ rlmu = NoThread
    /\ rlmu' = t
    /\ pc' = [pc EXCEPT ![t] = "wait_lookup"]
    /\ UNCHANGED <<clock, entries, locals, win, cfg>>

\* e, exists := rl.entries[key]; rl.mu.Unlock()
WaitLookup(t) ==
    /\ pc[t] = "wait_lookup"
    /\ found' = [found EXCEPT ![t] = Present(key[t])]
    /\ rlmu' = NoThread
    /\ pc' = [pc EXCEPT ![t] = IF Present(key[t]) THEN "wait_elock" ELSE "wait_return"]
    /\ UNCHANGED <<clock, entries, op, key, argMax, argRec, tnow, waitTime,
                   wakeAt, ret, hist, win, cfg>>

\* Faulty variant: the loop takes the table lock with the entry lock, and
\* nothing releases it.
WaitEntryLockUnderTable(t) ==
    /\ pc[t] = "wait_elock"
    /\ rlmu = NoThread
    /\ entries[key[t]].mu = NoThread
    /\ rlmu' = t
    /\ entries' = [entries EXCEPT ![key[t]].mu = t]
    /\ pc' = [pc EXCEPT ![t] = "wait_now"]
    /\ UNCHANGED <<clock, locals, win, cfg>>

\* e.mu.Lock() at the top of the loop
WaitEntryLock(t) ==
    /\ pc[t] = "wait_elock"
    /\ entries[key[t]].mu = NoThread
    /\ entries' = [entries EXCEPT ![key[t]].mu = t]
    /\ pc' = [pc EXCEPT ![t] = "wait_now"]
    /\ UNCHANGED <<clock, rlmu, locals, win, cfg>>

\* now := time.Now()
WaitNow(t) ==
    /\ pc[t] = "wait_now"
    /\ tnow' = [tnow EXCEPT ![t] = clock]
    /\ pc' = [pc EXCEPT ![t] = "wait_check"]
    /\ UNCHANGED <<clock, rlmu, entries, op, key, argMax, argRec, found,
                   waitTime, wakeAt, ret, hist, win, cfg>>

\* Faulty variant: Wait returns after its first attempt, granted or not.
WaitCheckOnce(t) ==
    /\ pc[t] = "wait_check"
    /\ LET k == key[t]
           e == entries[k]
           c == Consume(e, tnow[t])
       IN /\ entries' = [entries EXCEPT ![k] = c.e]
          /\ hist' = [hist EXCEPT ![t] = AfterAttempt(@, e, tnow[t])]
          /\ win' = [win EXCEPT ![k] = GrantsAfter(k, e, tnow[t])]
          /\ cfg' = [cfg EXCEPT ![k] = CfgAfter(k, e, tnow[t])]
          /\ pc' = [pc EXCEPT ![t] = "wait_unlock"]
    /\ UNCHANGED <<clock, rlmu, op, key, argMax, argRec, found, tnow, waitTime,
                   wakeAt, ret>>

\* The decision, on the entry as it is now and the instant read before: a
\* granted attempt goes on to unlock and return, a denied one to compute the
\* time to wait.
WaitCheck(t) ==
    /\ pc[t] = "wait_check"
    /\ LET k == key[t]
           e == entries[k]
           c == Consume(e, tnow[t])
       IN /\ entries' = [entries EXCEPT ![k] = c.e]
          /\ hist' = [hist EXCEPT ![t] = AfterAttempt(@, e, tnow[t])]
          /\ win' = [win EXCEPT ![k] = GrantsAfter(k, e, tnow[t])]
          /\ cfg' = [cfg EXCEPT ![k] = CfgAfter(k, e, tnow[t])]
          /\ pc' = [pc EXCEPT ![t] = IF c.ok THEN "wait_unlock" ELSE "wait_until"]
    /\ UNCHANGED <<clock, rlmu, op, key, argMax, argRec, found, tnow, waitTime,
                   wakeAt, ret>>

\* e.mu.Unlock() of a granted attempt; Wait returns.
WaitUnlock(t) ==
    /\ pc[t] = "wait_unlock"
    /\ entries' = [entries EXCEPT ![key[t]].mu = NoThread]
    /\ pc' = [pc EXCEPT ![t] = "idle"]
    /\ IdleLocals(t)
    /\ UNCHANGED <<clock, rlmu, win, cfg>>

\* Wait returns at once for a key that has no entry.
WaitReturn(t) ==
    /\ pc[t] = "wait_return"
    /\ pc' = [pc EXCEPT ![t] = "idle"]
    /\ IdleLocals(t)
    /\ UNCHANGED <<clock, rlmu, entries, win, cfg>>

\* waitTime := time.Until(e.expiresAt), which reads the clock anew.  The
\* local now is not read again before the next iteration assigns it.
WaitUntil(t) ==
    /\ pc[t] = "wait_until"
    /\ waitTime' = [waitTime EXCEPT ![t] = entries[key[t]].expiresAt - clock]
    /\ hist' = [hist EXCEPT ![t].until = entries[key[t]].expiresAt]
    /\ tnow' = [tnow EXCEPT ![t] = 0]
    /\ pc' = [pc EXCEPT ![t] = "wait_eunlock"]
    /\ UNCHANGED <<clock, rlmu, entries, op, key, argMax, argRec, found,
                   wakeAt, ret, win, cfg>>

\* Faulty variant: the entry lock is not released before the sleep.
WaitLoopUnlockSkipped(t) ==
    /\ pc[t] = "wait_eunlock"
    /\ pc' = [pc EXCEPT ![t] = "wait_tosleep"]
    /\ UNCHANGED <<clock, rlmu, entries, locals, win, cfg>>

\* e.mu.Unlock() of a denied attempt
WaitLoopUnlock(t) ==
    /\ pc[t] = "wait_eunlock"
    /\ entries' = [entries EXCEPT ![key[t]].mu = NoThread]
    /\ pc' = [pc EXCEPT ![t] = "wait_tosleep"]
    /\ UNCHANGED <<clock, rlmu, locals, win, cfg>>

\* Faulty variant: the sleep is one unit short of the duration passed.
WaitSleepShort(t) ==
    /\ pc[t] = "wait_tosleep"
    /\ wakeAt' = [wakeAt EXCEPT ![t] = clock + waitTime[t] - 1]
    /\ waitTime' = [waitTime EXCEPT ![t] = 0]
    /\ hist' = [hist EXCEPT ![t].slept = TRUE]
    /\ pc' = [pc EXCEPT ![t] = "wait_sleep"]
    /\ UNCHANGED <<clock, rlmu, entries, op, key, argMax, argRec, found, tnow,
                   ret, win, cfg>>

\* time.Sleep(waitTime) is entered: it returns no earlier than waitTime from
\* the instant it is entered at, and at once if waitTime is not positive.
\* The local waitTime is not read again.
WaitSleep(t) ==
    /\ pc[t] = "wait_tosleep"
    /\ wakeAt' = [wakeAt EXCEPT ![t] = clock + waitTime[t]]
    /\ waitTime' = [waitTime EXCEPT ![t] = 0]
    /\ hist' = [hist EXCEPT ![t].slept = TRUE]
    /\ pc' = [pc EXCEPT ![t] = "wait_sleep"]
    /\ UNCHANGED <<clock, rlmu, entries, op, key, argMax, argRec, found, tnow,
                   ret, win, cfg>>

\* Faulty variant: time.Sleep returns before the duration has passed.
WaitWakeEarly(t) ==
    /\ pc[t] = "wait_sleep"
    /\ wakeAt' = [wakeAt EXCEPT ![t] = 0]
    /\ pc' = [pc EXCEPT ![t] = "wait_elock"]
    /\ UNCHANGED <<clock, rlmu, entries, op, key, argMax, argRec, found, tnow,
                   waitTime, ret, hist, win, cfg>>

\* time.Sleep returns, once its duration has passed; the loop starts over.
WaitWake(t) ==
    /\ pc[t] = "wait_sleep"
    /\ clock >= wakeAt[t]
    /\ wakeAt' = [wakeAt EXCEPT ![t] = 0]
    /\ pc' = [pc EXCEPT ![t] = "wait_elock"]
    /\ UNCHANGED <<clock, rlmu, entries, op, key, argMax, argRec, found, tnow,
                   waitTime, ret, hist, win, cfg>>

(* ----------------------------- WaitOrSet ------------------------------- *)

\* rl.mu.Lock()
WaitOrSetLock(t) ==
    /\ pc[t] = "wos_lock"
    /\ rlmu = NoThread
    /\ rlmu' = t
    /\ pc' = [pc EXCEPT ![t] = "wos_body"]
    /\ UNCHANGED <<clock, entries, locals, win, cfg>>

\* Faulty variant: on a key that has an entry, the configuration passed is
\* written to the entry.
WaitOrSetBodyReconfigures(t) ==
    /\ pc[t] = "wos_body"
    /\ found' = [found EXCEPT ![t] = Present(key[t])]
    /\ IF ~Present(key[t])
       THEN /\ entries' = Put(key[t], NewEntryWaitOrSet(argMax[t], argRec[t], clock))
            /\ tnow' = [tnow EXCEPT ![t] = clock]
            /\ hist' = [hist EXCEPT ![t] = [@ EXCEPT !.how = "create", !.grants = 1]]
            /\ win' = [win EXCEPT ![key[t]] = 1]
            /\ cfg' = [cfg EXCEPT ![key[t]] = "wos"]
       ELSE /\ entries' = [entries EXCEPT ![key[t]].maxUses = argMax[t],
                                          ![key[t]].recovery = argRec[t]]
            /\ UNCHANGED <<tnow, hist, win, cfg>>
    /\ pc' = [pc EXCEPT ![t] = "wos_unlock"]
    /\ UNCHANGED <<clock, rlmu, op, key, argMax, argRec, waitTime, wakeAt, ret>>

\* _, exists := rl.entries[key]; an absent key gets its entry, with the first
\* use consumed.
WaitOrSetBody(t) ==
    /\ pc[t] = "wos_body"
    /\ found' = [found EXCEPT ![t] = Present(key[t])]
    /\ IF ~Present(key[t])
       THEN /\ entries' = Put(key[t], NewEntryWaitOrSet(argMax[t], argRec[t], clock))
            /\ tnow' = [tnow EXCEPT ![t] = clock]
            /\ hist' = [hist EXCEPT ![t] = [@ EXCEPT !.how = "create", !.grants = 1]]
            /\ win' = [win EXCEPT ![key[t]] = 1]
            /\ cfg' = [cfg EXCEPT ![key[t]] = "wos"]
       ELSE UNCHANGED <<entries, tnow, hist, win, cfg>>
    /\ pc' = [pc EXCEPT ![t] = "wos_unlock"]
    /\ UNCHANGED <<clock, rlmu, op, key, argMax, argRec, waitTime, wakeAt, ret>>

\* rl.mu.Unlock(); the creator returns, any other caller goes on as
\* rl.Wait(key), which is passed the key alone.
WaitOrSetUnlock(t) ==
    /\ pc[t] = "wos_unlock"
    /\ rlmu' = NoThread
    /\ IF found[t]
       THEN /\ pc' = [pc EXCEPT ![t] = "wait_lock"]
            /\ argMax' = [argMax EXCEPT ![t] = 0]
            /\ argRec' = [argRec EXCEPT ![t] = 0]
            /\ found' = [found EXCEPT ![t] = FALSE]
            /\ UNCHANGED <<op, key, tnow, waitTime, wakeAt, ret, hist>>
       ELSE /\ pc' = [pc EXCEPT ![t] = "idle"]
            /\ IdleLocals(t)
    /\ UNCHANGED <<clock, entries, win, cfg>>

(* ------------------------------ the clock ------------------------------ *)

\* A goroutine in the loop of Wait whose last attempt was denied and whose
\* entry's window has not expired yet, or whose time.Sleep cannot return yet.
AwaitsExpiry(t) ==
    \/ /\ pc[t] \in {"wait_elock", "wait_now", "wait_check", "wait_until",
                     "wait_eunlock", "wait_tosleep", "wait_sleep"}
       /\ hist[t].how = "denied"
       /\ ~Expired(entries[key[t]], clock)
    \/ /\ pc[t] = "wait_sleep"
       /\ clock < wakeAt[t]

\* Time passes.  Past MaxTime it does so only while some Wait still needs it.
Tick ==
    /\ \/ clock < MaxTime
       \/ \E t \in Threads : AwaitsExpiry(t)
    /\ clock' = clock + 1
    /\ UNCHANGED <<rlmu, entries, pc, locals, win, cfg>>

(* ------------------------- the specification --------------------------- *)

Step(t) ==
    \/ SetLock(t) \/ SetBody(t) \/ SetRecovery(t) \/ SetUnlock(t)
    \/ AllowLock(t) \/ AllowLookup(t) \/ AllowEntryLock(t) \/ AllowNow(t)
    \/ AllowCheck(t) \/ AllowUnlock(t) \/ AllowReturn(t)
    \/ WaitLock(t) \/ WaitLookup(t) \/ WaitEntryLock(t) \/ WaitNow(t)
    \/ WaitCheck(t) \/ WaitUnlock(t) \/ WaitReturn(t) \/ WaitUntil(t)
    \/ WaitLoopUnlock(t) \/ WaitSleep(t) \/ WaitWake(t)
    \/ WaitOrSetLock(t) \/ WaitOrSetBody(t) \/ WaitOrSetUnlock(t)

\* Spec: every method, with every configuration, on one key.
Start(t) == StartOn(t, {"a"}, MaxUsesVals, RecoveryVals)

Next == (\E t \in Threads : Start(t) \/ Step(t)) \/ Tick

Spec == Init /\ [][Next]_vars

(* --------------------- two keys, few configurations -------------------- *)

\* SpecKeys: every method on two keys, the configurations drawn from
\* KeysMaxUses and KeysRecovery; calls start while the clock is below
\* KeysMaxTime, and go on at any later instant.
KeysMaxUses == {1}
KeysRecovery == {0, 1}
KeysMaxTime == 1

StartKeys(t) ==
    /\ clock < KeysMaxTime
    /\ StartOn(t, Keys, KeysMaxUses, KeysRecovery)

NextKeys == (\E t \in Threads : StartKeys(t) \/ Step(t)) \/ Tick

SpecKeys == Init /\ [][NextKeys]_vars

(* ------------------- a burst of Allow on one key ----------------------- *)

\* SpecBurst: every goroutine calls Allow("a") once, all at the same time, on
\* an entry whose quota is the number of goroutines and whose window has just
\* expired.  The entry is one that Set("a", NThreads, r) at instant 0 followed
\* by u calls of Allow at instant 0 leave behind, seen at instant BurstStart.
BurstStart == 1

InitBurst ==
    /\ clock = BurstStart
    /\ rlmu = NoThread
    /\ \E r \in RecoveryVals, u \in 0..NThreads :
          /\ entries = [k \in {"a"} |->
                          [NewEntrySet(NThreads, r, 0) EXCEPT !.uses = u]]
          /\ win = [k \in Keys |-> IF k = "a" THEN u ELSE 0]
    /\ cfg = [k \in Keys |-> IF k = "a" THEN "set" ELSE "none"]
    /\ pc = [t \in Threads |-> "allow_lock"]
    /\ op = [t \in Threads |-> "Allow"]
    /\ key = [t \in Threads |-> "a"]
    /\ argMax = [t \in Threads |-> 0]
    /\ argRec = [t \in Threads |-> 0]
    /\ found = [t \in Threads |-> FALSE]
    /\ tnow = [t \in Threads |-> 0]
    /\ waitTime = [t \in Threads |-> 0]
    /\ wakeAt = [t \in Threads |-> 0]
    /\ ret = [t \in Threads |-> FALSE]
    /\ hist = [t \in Threads |-> FreshHist]

NextBurst ==
    \/ \E t \in Threads :
          \/ AllowLock(t) \/ AllowLookup(t) \/ AllowEntryLock(t)
          \/ AllowNow(t) \/ AllowCheck(t) \/ AllowUnlock(t)
    \/ Tick

SpecBurst == InitBurst /\ [][NextBurst]_vars

(* ------------------- fair scheduling, one key -------------------------- *)

\* SpecFair: every method on one key, with a positive recovery; the clock
\* keeps advancing while a call can start or a Wait waits for it, and every
\* goroutine inside a call is scheduled again and again.  sync.Mutex hands a
\* lock that is free to a goroutine waiting for it, time.Sleep returns once
\* its duration has passed.  Calls start only while clock < MaxTime, so there
\* are finitely many of them.
FairMaxUses == {0, 1, 2}
FairRecovery == {1}

StartFair(t) == StartOn(t, {"a"}, FairMaxUses, FairRecovery)

NextFair == (\E t \in Threads : StartFair(t) \/ Step(t)) \/ Tick

SpecFair ==
    /\ Init
    /\ [][NextFair]_vars
    /\ WF_vars(Tick)
    /\ \A t \in Threads : WF_vars(Step(t))

(* ----------------- waiters on one key, calls on another ---------------- *)

\* SpecApart: all goroutines but one are inside the loop of Wait on key "a",
\* whose entry is as WaitOrSet("a", 1, ApartWindow) at instant 0 created it:
\* the quota is used up, the window lasts until ApartWindow.  The remaining
\* goroutine, Actor, calls every method on key "b".  The clock keeps
\* advancing and Actor is scheduled again and again; nothing is assumed of
\* the scheduling of the waiters, which may stop anywhere in the loop.
ApartWindow == 2

Actor == NThreads

Waiters == Threads \ {Actor}

InitApart ==
    /\ clock = 0
    /\ rlmu = NoThread
    /\ entries = [k \in {"a"} |-> NewEntryWaitOrSet(1, ApartWindow, 0)]
    /\ win = [k \in Keys |-> IF k = "a" THEN 1 ELSE 0]
    /\ cfg = [k \in Keys |-> IF k = "a" THEN "wos" ELSE "none"]
    /\ pc = [t \in Threads |-> IF t = Actor THEN "idle" ELSE "wait_elock"]
    /\ op = [t \in Threads |-> IF t = Actor THEN "none" ELSE "Wait"]
    /\ key = [t \in Threads |-> "a"]
    /\ argMax = [t \in Threads |-> 0]
    /\ argRec = [t \in Threads |-> 0]
    /\ found = [t \in Threads |-> t # Actor]
    /\ tnow = [t \in Threads |-> 0]
    /\ waitTime = [t \in Threads |-> 0]
    /\ wakeAt = [t \in Threads |-> 0]
    /\ ret = [t \in Threads |-> FALSE]
    /\ hist = [t \in Threads |-> FreshHist]

StartApart == StartOn(Actor, {"b"}, MaxUsesVals, RecoveryVals)

NextApart ==
    \/ \E t \in Waiters :
          \/ WaitEntryLock(t) \/ WaitNow(t) \/ WaitCheck(t) \/ WaitUnlock(t)
          \/ WaitUntil(t) \/ WaitLoopUnlock(t) \/ WaitSleep(t) \/ WaitWake(t)
    \/ StartApart
    \/ Step(Actor)
    \/ Tick

SpecApart ==
    /\ InitApart
    /\ [][NextApart]_vars
    /\ WF_vars(Tick)
    /\ WF_vars(Step(Actor))

(* ------------------- a race of WaitOrSet on one key -------------------- *)

\* SpecRace: every goroutine calls WaitOrSet("a", m, r) once, all at the same
\* time, each with a configuration of its own, on the empty table.
InitRace ==
    /\ clock = 0
    /\ rlmu = NoThread
    /\ entries = << >>
    /\ win = [k \in Keys |-> 0]
    /\ cfg = [k \in Keys |-> "none"]
    /\ pc = [t \in Threads |-> "wos_lock"]
    /\ op = [t \in Threads |-> "WaitOrSet"]
    /\ key = [t \in Threads |-> "a"]
    /\ argMax \in [Threads -> MaxUsesVals]
    /\ argRec \in [Threads -> RecoveryVals]
    /\ found = [t \in Threads |-> FALSE]
    /\ tnow = [t \in Threads |-> 0]
    /\ waitTime = [t \in Threads |-> 0]
    /\ wakeAt = [t \in Threads |-> 0]
    /\ ret = [t \in Threads |-> FALSE]
    /\ hist = [t \in Threads |-> FreshHist]

NextRace ==
    \/ \E t \in Threads :
          \/ WaitOrSetLock(t) \/ WaitOrSetBody(t) \/ WaitOrSetUnlock(t)
          \/ WaitLock(t) \/ WaitLookup(t) \/ WaitEntryLock(t) \/ WaitNow(t)
          \/ WaitCheck(t) \/ WaitUnlock(t) \/ WaitUntil(t)
          \/ WaitLoopUnlock(t) \/ WaitSleep(t) \/ WaitWake(t)
    \/ Tick

SpecRace == InitRace /\ [][NextRace]_vars

(* ============================ properties =============================== *)

\* The entry of the key goroutine t works on.
EntryOf(t) == entries[key[t]]

AllIdle == \A t \in Threads : pc[t] = "idle"

(* -------------------------------- C1 ----------------------------------- *)

\* The example of C1: Set(K, 2, 100) before instant 0, then Allow at the
\* instants 0, 1, 2 and 101.
C1_Example ==
    LET e0 == NewEntrySet(2, 100, -1)
        c1 == Consume(e0, 0)
        c2 == Consume(c1.e, 1)
        c3 == Consume(c2.e, 2)
        c4 == Consume(c3.e, 101)
    IN /\ <<c1.ok, c2.ok, c3.ok>> = <<TRUE, TRUE, FALSE>>
       /\ c4.ok
       /\ c4.e.uses = 1

\* C1: on a key that Set created with maxUses = N >= 1 and recovery > 0 and
\* that no Set has written since, a call of Allow that returns true is one of
\* the first N grants of its window, and a call that returns false comes
\* after N grants in its window: the first N calls of a window return true
\* and the (N+1)th returns false.  With N = 2 and recovery 100, calls at 0,
\* 1, 2 return true, true, false, and a call at 101 returns true and leaves
\* uses = 1.
C1_FirstNGranted ==
    /\ C1_Example
    /\ \A t \in Threads :
          (/\ pc[t] = "allow_unlock"
           /\ cfg[key[t]] = "set"
           /\ EntryOf(t).maxUses >= 1
           /\ EntryOf(t).recovery > 0)
          => /\ ret[t] => win[key[t]] \in 1..EntryOf(t).maxUses
             /\ ~ret[t] => win[key[t]] = EntryOf(t).maxUses

\* An Allow is denied as the third call of a window with a quota of 2.
C1_Witness ==
    \E t \in Threads :
        /\ pc[t] = "allow_unlock"
        /\ ~ret[t]
        /\ cfg[key[t]] = "set"
        /\ EntryOf(t).maxUses = 2
        /\ EntryOf(t).recovery > 0
        /\ win[key[t]] = 2

(* -------------------------------- C2 ----------------------------------- *)

\* The decision step of Allow by goroutine t.
AllowChecks(t) == pc[t] = "allow_check" /\ pc'[t] = "allow_unlock"

\* C2: a call of Allow that observes now >= expiresAt, the instant
\* now = expiresAt included, returns true, sets uses to 1 and expiresAt to
\* now + recovery.  The code tests now.After(e.expiresAt), which is false at
\* now = expiresAt: there the call stays inside the window.
C2_RolloverAtBoundary ==
    [][\A t \in Threads :
         (AllowChecks(t) /\ tnow[t] >= EntryOf(t).expiresAt)
         => /\ ret'[t]
            /\ entries'[key[t]].uses = 1
            /\ entries'[key[t]].expiresAt = tnow[t] + EntryOf(t).recovery]_vars

(* -------------------------------- C3 ----------------------------------- *)

\* C3 as stated: once the NThreads concurrent calls of Allow on the key whose
\* window has just expired and whose maxUses is NThreads have returned, all
\* of them true, the entry has uses = NThreads.
C3_EndsFull ==
    /\ \A t \in Threads : pc[t] = "allow_unlock" => ret[t]
    /\ AllIdle => entries["a"].uses = NThreads

\* C3, amended: every one of the calls returns true, and the entry ends with
\* uses = NThreads provided the clock has not passed the end of the window
\* the first of them opened, which is no earlier than BurstStart + recovery;
\* in any case the entry ends with the uses granted since its last rollover.
C3_AllGranted ==
    /\ \A t \in Threads : pc[t] = "allow_unlock" => ret[t]
    /\ (AllIdle /\ clock <= BurstStart + entries["a"].recovery)
         => entries["a"].uses = NThreads
    /\ AllIdle => entries["a"].uses = win["a"]

\* All calls have returned, at a later instant than the first was made, and
\* the entry is full.
C3_Witness ==
    /\ AllIdle
    /\ clock > BurstStart
    /\ entries["a"].recovery > 0
    /\ entries["a"].uses = NThreads

(* -------------------------------- C4 ----------------------------------- *)

\* Goroutine t is inside Wait on a key that has an entry.
InWaitLoop(t) ==
    pc[t] \in {"wait_elock", "wait_now", "wait_check", "wait_until",
               "wait_eunlock", "wait_tosleep", "wait_sleep", "wait_unlock"}

\* C4: under fair scheduling and an advancing clock, every call of Wait on a
\* key that has an entry, whose recovery is positive, returns, whatever the
\* other goroutine calls on the key meanwhile; and a call of Wait that found
\* the quota exhausted is granted its use at an instant that is no earlier
\* than the expiresAt it read when it was denied.
C4_WaitReturns ==
    /\ \A t \in Threads : InWaitLoop(t) ~> (pc[t] = "idle")
    /\ [](\A t \in Threads :
            (pc[t] = "wait_unlock" /\ hist[t].slept) => tnow[t] >= hist[t].until)

\* A Wait that was denied and slept is granted its use at a later instant,
\* the end of the window it was denied in.
C4_Witness ==
    \E t \in Threads :
        /\ pc[t] = "wait_unlock"
        /\ hist[t].slept
        /\ hist[t].until >= 1
        /\ tnow[t] >= hist[t].until
        /\ EntryOf(t).recovery > 0

(* -------------------------------- C5 ----------------------------------- *)

\* Goroutine t takes a step.
Steps(t) == pc'[t] # pc[t]

\* The entry of key k is changed by one consumption inside its window.
ConsumedInWindow(k) ==
    entries' = [entries EXCEPT ![k].uses = @ + 1]

\* The entry of key k is changed by one rollover at the instant now.
RolledOver(k, now) ==
    entries' = [entries EXCEPT ![k].uses = 1,
                               ![k].expiresAt = now + entries[k].recovery]

\* C5: a call of Wait on a key that has an entry returns only after one
\* attempt of its own was granted, which added one use inside the window or
\* rolled the window over to uses = 1; a denied attempt changes nothing and
\* is followed by the sleep, never by the return; and the call has consumed
\* no use before the granted attempt, so it consumes exactly one.
C5_WaitConsumesOnce ==
    /\ [](\A t \in Threads :
            /\ pc[t] = "wait_unlock"
                 => hist[t].grants = 1 /\ hist[t].how \in {"inc", "roll"}
            /\ (InWaitLoop(t) /\ pc[t] # "wait_unlock") => hist[t].grants = 0)
    /\ [][\A t \in Threads :
            /\ (pc[t] = "wait_check" /\ Steps(t))
                 => \/ /\ pc'[t] = "wait_unlock"
                       /\ ConsumedInWindow(key[t]) \/ RolledOver(key[t], tnow[t])
                    \/ /\ pc'[t] = "wait_until"
                       /\ entries' = entries
            /\ (InWaitLoop(t) /\ pc'[t] = "idle") => pc[t] = "wait_unlock"
            /\ (pc[t] = "wait_unlock" /\ Steps(t))
                 => (pc'[t] = "idle" /\ entries'[key[t]].uses = EntryOf(t).uses)]_vars

\* A Wait that was denied and slept has been granted its one use.
C5_Witness ==
    \E t \in Threads :
        /\ op[t] = "Wait"
        /\ pc[t] = "wait_unlock"
        /\ hist[t].slept
        /\ hist[t].grants = 1

(* -------------------------------- C6 ----------------------------------- *)

\* C6: WaitOrSet(key, maxUses, recovery) on a key that has no entry returns
\* without sleeping and leaves the entry with uses = 1, the passed maxUses
\* and recovery, and expiresAt = now + recovery; and on a key whose entry
\* WaitOrSet created with maxUses = 1, and no Set has written since, a later
\* call of WaitOrSet returns only by rolling the window over.
C6_WaitOrSetCreates ==
    \A t \in Threads :
        /\ (pc[t] = "wos_unlock" /\ ~found[t])
             => /\ EntryOf(t) = [mu |-> NoThread, uses |-> 1,
                                 maxUses |-> argMax[t], recovery |-> argRec[t],
                                 expiresAt |-> tnow[t] + argRec[t]]
                /\ ~hist[t].slept
        /\ (/\ op[t] = "WaitOrSet"
            /\ pc[t] = "wait_unlock"
            /\ cfg[key[t]] = "wos"
            /\ EntryOf(t).maxUses = 1)
             => /\ hist[t].how = "roll"
                /\ EntryOf(t).uses = 1
                /\ EntryOf(t).expiresAt = tnow[t] + EntryOf(t).recovery

\* A second WaitOrSet on a key created with maxUses = 1 has slept and then
\* rolled the window over.
C6_Witness ==
    \E t \in Threads :
        /\ op[t] = "WaitOrSet"
        /\ pc[t] = "wait_unlock"
        /\ cfg[key[t]] = "wos"
        /\ EntryOf(t).maxUses = 1
        /\ EntryOf(t).recovery = 1
        /\ hist[t].slept
        /\ hist[t].how = "roll"

(* -------------------------------- C7 ----------------------------------- *)

\* C7: a call of Allow that finds no entry for its key returns true, a call
\* of Wait that finds none returns without having slept, both without
\* changing the table; and no step of Allow or of Wait adds a key to the
\* table or changes the entry of another key than its own.
C7_AbsentKeyUnlimited ==
    [][\A t \in Threads :
         /\ (pc[t] = "allow_lookup" /\ Steps(t) /\ ~Present(key[t]))
              => ret'[t] /\ pc'[t] = "allow_return" /\ entries' = entries
         /\ (pc[t] = "allow_return" /\ Steps(t))
              => ret[t] /\ pc'[t] = "idle" /\ entries' = entries
         /\ (pc[t] = "wait_lookup" /\ Steps(t) /\ ~Present(key[t]))
              => pc'[t] = "wait_return" /\ entries' = entries
         /\ (pc[t] = "wait_return" /\ Steps(t))
              => ~hist[t].slept /\ pc'[t] = "idle" /\ entries' = entries
         /\ (op[t] \in {"Allow", "Wait"} /\ Steps(t))
              => /\ DOMAIN entries' = DOMAIN entries
                 /\ \A j \in DOMAIN entries :
                       j # key[t] => entries'[j] = entries[j]]_vars

\* An Allow on a key that has no entry is about to return true, while the
\* other key has an entry with a use consumed.
C7_Witness ==
    \E t \in Threads :
        /\ pc[t] = "allow_return"
        /\ ret[t]
        /\ key[t] = "b"
        /\ ~Present("b")
        /\ Present("a")
        /\ entries["a"].uses >= 1

(* -------------------------------- C8 ----------------------------------- *)

\* C8: a step of Set on a key that has an entry leaves the keys of the table,
\* the entry of every other key, and uses, expiresAt and the lock of its own
\* entry as they are; its first write sets maxUses, its second recovery, to
\* the values passed.
C8_SetFrame ==
    [][\A t \in Threads :
         (op[t] = "Set" /\ Steps(t) /\ Present(key[t]))
         => /\ DOMAIN entries' = DOMAIN entries
            /\ \A j \in DOMAIN entries : j # key[t] => entries'[j] = entries[j]
            /\ entries'[key[t]].uses = EntryOf(t).uses
            /\ entries'[key[t]].expiresAt = EntryOf(t).expiresAt
            /\ entries'[key[t]].mu = EntryOf(t).mu
            /\ pc[t] = "set_body"
                 => entries' = [entries EXCEPT ![key[t]].maxUses = argMax[t]]
            /\ pc[t] = "set_recovery"
                 => entries' = [entries EXCEPT ![key[t]].recovery = argRec[t]]]_vars

\* A Set on a key that had an entry, with a use consumed in a window that is
\* still active, has written a new recovery; the other key has an entry too.
C8_Witness ==
    \E t \in Threads :
        /\ op[t] = "Set"
        /\ pc[t] = "set_unlock"
        /\ found[t]
        /\ EntryOf(t).uses >= 1
        /\ EntryOf(t).expiresAt >= clock
        /\ EntryOf(t).recovery = argRec[t]
        /\ EntryOf(t).expiresAt - EntryOf(t).recovery > clock
        /\ \E j \in DOMAIN entries : j # key[t]

(* -------------------------------- C9 ----------------------------------- *)

\* C9: the write of Set makes maxUses the value passed and leaves uses and
\* expiresAt alone; a call of Allow in a window that is still active, a
\* window whose quota Set has raised included, returns true and adds one use
\* exactly while uses is below the maxUses of the entry, and leaves
\* expiresAt alone; a recovery written by Set leaves expiresAt alone, and the
\* next rollover sets expiresAt to now + that recovery.
C9_RaisedQuota ==
    [][\A t \in Threads :
         /\ (pc[t] = "set_body" /\ Steps(t) /\ Present(key[t]))
              => /\ entries'[key[t]].maxUses = argMax[t]
                 /\ entries'[key[t]].uses = EntryOf(t).uses
                 /\ entries'[key[t]].expiresAt = EntryOf(t).expiresAt
         /\ (pc[t] = "set_recovery" /\ Steps(t))
              => /\ entries'[key[t]].recovery = argRec[t]
                 /\ entries'[key[t]].expiresAt = EntryOf(t).expiresAt
         /\ (AllowChecks(t) /\ tnow[t] <= EntryOf(t).expiresAt)
              => /\ entries'[key[t]].expiresAt = EntryOf(t).expiresAt
                 /\ ret'[t] = (EntryOf(t).uses < EntryOf(t).maxUses)
                 /\ entries'[key[t]].uses =
                       IF EntryOf(t).uses < EntryOf(t).maxUses
                       THEN EntryOf(t).uses + 1 ELSE EntryOf(t).uses
         /\ (pc[t] \in {"allow_check", "wait_check"} /\ Steps(t)
               /\ tnow[t] > EntryOf(t).expiresAt)
              => entries'[key[t]].expiresAt = tnow[t] + EntryOf(t).recovery]_vars

\* Set has raised maxUses from 1 to 2 over an exhausted quota, and an Allow in
\* the same window was granted the second use.
C9_Witness ==
    \E t \in Threads :
        /\ pc[t] = "allow_unlock"
        /\ cfg[key[t]] = "raised"
        /\ hist[t].how = "inc"
        /\ ret[t]
        /\ EntryOf(t).uses = 2
        /\ EntryOf(t).maxUses = 2
        /\ tnow[t] <= EntryOf(t).expiresAt

(* -------------------------------- C10 ---------------------------------- *)

\* No call on key k is in progress.
Quiescent(k) == \A t \in Threads : pc[t] = "idle" \/ key[t] # k

\* C10 as stated: whenever no call on an entry is in progress, the entry has
\* 0 <= uses <= maxUses.
C10_UsesWithinQuota ==
    \A k \in DOMAIN entries :
        Quiescent(k) => /\ 0 <= entries[k].uses
                        /\ entries[k].uses <= entries[k].maxUses

\* C10, amended: whenever no call on an entry is in progress, the entry has
\* 0 <= uses, and it has uses <= maxUses if its maxUses is at least 1 and no
\* Set has ever written a smaller maxUses over it.
C10_UsesWithinUnloweredQuota ==
    \A k \in DOMAIN entries :
        Quiescent(k)
        => /\ 0 <= entries[k].uses
           /\ (entries[k].maxUses >= 1 /\ cfg[k] # "lowered")
                => entries[k].uses <= entries[k].maxUses

\* An entry at rest with its quota of 2 used up, after a rollover.
C10_Witness ==
    \E k \in DOMAIN entries :
        /\ Quiescent(k)
        /\ cfg[k] # "lowered"
        /\ entries[k].maxUses = 2
        /\ entries[k].uses = 2
        /\ entries[k].expiresAt > entries[k].recovery

(* -------------------------------- C11 ---------------------------------- *)

\* C11 as stated: on a key whose maxUses is not positive, no call of Allow
\* returns true.
C11_NeverGranted ==
    [][\A t \in Threads :
         (AllowChecks(t) /\ EntryOf(t).maxUses <= 0) => ~ret'[t]]_vars

\* C11, amended: on a key whose maxUses is not positive, a call of Allow that
\* observes now <= expiresAt returns false and changes nothing, and a call
\* that observes now > expiresAt rolls the window over and returns true with
\* uses = 1: one use is granted per window, and no call fails otherwise.
C11_GrantedByRolloverOnly ==
    [][\A t \in Threads :
         (AllowChecks(t) /\ EntryOf(t).maxUses <= 0)
         => /\ ret'[t] = (tnow[t] > EntryOf(t).expiresAt)
            /\ ret'[t] => RolledOver(key[t], tnow[t])
            /\ ~ret'[t] => entries' = entries]_vars

\* An Allow on a key that Set created with maxUses = 0 has returned true.
C11_Witness ==
    \E t \in Threads :
        /\ pc[t] = "allow_unlock"
        /\ ret[t]
        /\ cfg[key[t]] = "set"
        /\ EntryOf(t).maxUses = 0
        /\ EntryOf(t).uses = 1
        /\ hist[t].how = "roll"

(* -------------------------------- C12 ---------------------------------- *)

\* The attempt of Allow or of Wait by goroutine t, as a step, on an entry
\* that Set created and on which no use was granted yet.
FirstAttempt(t) ==
    /\ pc[t] \in {"allow_check", "wait_check"}
    /\ Steps(t)
    /\ cfg[key[t]] = "set"
    /\ win[key[t]] = 0

\* Set has just created the entry of its key.
SetCreated(t) == pc[t] = "set_unlock" /\ ~found[t]

\* C12: Set on a key that has no entry creates one with uses = 0 and
\* expiresAt = now, and the next Allow or Wait on the key rolls the window
\* over, at whatever instant it comes.  At the instant of the Set the code's
\* now.After(e.expiresAt) is false, and the use is counted, or denied, inside
\* the window that ends at that instant.
C12_FirstUseRollsOver ==
    /\ [](\A t \in Threads :
            SetCreated(t) => EntryOf(t) = NewEntrySet(argMax[t], argRec[t], tnow[t]))
    /\ [][\A t \in Threads : FirstAttempt(t) => RolledOver(key[t], tnow[t])]_vars

(* -------------------------------- C13 ---------------------------------- *)

\* Goroutine t is about to read or write uses, expiresAt, maxUses or recovery
\* of the entry of its key, which is in the table.
AccessesEntry(t) ==
    \/ pc[t] = "set_body" /\ Present(key[t])
    \/ pc[t] = "set_recovery"
    \/ pc[t] \in {"allow_check", "wait_check", "wait_until"}

\* C13: a goroutine that reads or writes uses, expiresAt, maxUses or recovery
\* of an entry holds the lock of the entry.
C13_EntryLockHeld ==
    \A t \in Threads : AccessesEntry(t) => EntryOf(t).mu = t

(* -------------------------------- C14 ---------------------------------- *)

\* C14: a goroutine that sleeps in Wait, or that runs the decision of Allow
\* or of Wait on an entry, does not hold the table lock, and a goroutine that
\* sleeps in Wait holds no entry lock.
C14_NoLockAcrossSleep ==
    \A t \in Threads :
        /\ pc[t] \in {"wait_tosleep", "wait_sleep", "allow_now", "allow_check",
                     "wait_now", "wait_check", "wait_until", "wait_eunlock"}
             => rlmu # t
        /\ pc[t] \in {"wait_tosleep", "wait_sleep"}
             => \A k \in DOMAIN entries : entries[k].mu # t

\* A Wait sleeps until a later instant while the other goroutine holds the
\* lock of the same entry.
C14_Witness ==
    \E t, u \in Threads :
        /\ pc[t] = "wait_sleep"
        /\ wakeAt[t] > clock
        /\ rlmu # t
        /\ u # t
        /\ key[u] = key[t]
        /\ EntryOf(t).mu = u

(* -------------------------------- C15 ---------------------------------- *)

\* C15: while the other goroutines wait, sleep or stand still in Wait on key
\* "a", every call on key "b" returns; the waiters hold neither the table
\* lock nor the lock of the entry of "b"; a step of a call on "b" leaves the
\* entry of "a" alone and decides from the entry of "b", and a step of a
\* waiter leaves the table and the entry of "b" alone.
C15_OtherKeyUnhindered ==
    /\ (pc[Actor] # "idle") ~> (pc[Actor] = "idle")
    /\ [](\A t \in Waiters :
            /\ rlmu # t
            /\ Present("b") => entries["b"].mu # t)
    /\ [][/\ Steps(Actor) => entries'["a"] = entries["a"]
          /\ (pc[Actor] \in {"allow_check", "wait_check"} /\ Steps(Actor))
               => entries'["b"] = Consume(entries["b"], tnow[Actor]).e
          /\ \A t \in Waiters :
                Steps(t) => /\ DOMAIN entries' = DOMAIN entries
                            /\ \A j \in DOMAIN entries :
                                  j # "a" => entries'[j] = entries[j]]_vars

\* A Wait on "b" that was denied and slept has been granted its use while a
\* waiter on "a" is still asleep.
C15_Witness ==
    \E t \in Waiters :
        /\ pc[t] = "wait_sleep"
        /\ wakeAt[t] > clock
        /\ pc[Actor] = "wait_unlock"
        /\ key[Actor] = "b"
        /\ hist[Actor].slept
        /\ hist[Actor].grants = 1

(* -------------------------------- C16 ---------------------------------- *)

\* The entry of key k changes its uses or its expiresAt.
WindowChanges(k) ==
    <<entries'[k].uses, entries'[k].expiresAt>>
        # <<entries[k].uses, entries[k].expiresAt>>

\* C16: a step that changes uses or expiresAt of an entry is the decision of
\* a call of Allow or of Wait on the key, which has read the instant now, and
\* either adds one to uses and leaves expiresAt alone, with now <= expiresAt
\* and uses < maxUses, or sets uses to 1 and expiresAt to now + recovery, with
\* now > expiresAt; a denied attempt changes neither.
C16_TwoTransitions ==
    [][/\ \A k \in DOMAIN entries :
            WindowChanges(k)
            => \E t \in Threads :
                  /\ key[t] = k
                  /\ pc[t] \in {"allow_check", "wait_check"}
                  /\ Steps(t)
                  /\ \/ /\ entries'[k].uses = entries[k].uses + 1
                        /\ entries'[k].expiresAt = entries[k].expiresAt
                        /\ tnow[t] <= entries[k].expiresAt
                        /\ entries[k].uses < entries[k].maxUses
                     \/ /\ entries'[k].uses = 1
                        /\ entries'[k].expiresAt = tnow[t] + entries[k].recovery
                        /\ tnow[t] > entries[k].expiresAt
       /\ \A t \in Threads :
            (pc[t] \in {"allow_check", "wait_check"} /\ Steps(t)
               /\ hist'[t].how = "denied")
            => entries' = entries]_vars

\* A window with two uses consumed was rolled over by a Wait that had been
\* denied in it.
C16_Witness ==
    \E t \in Threads :
        /\ pc[t] = "wait_unlock"
        /\ hist[t].how = "roll"
        /\ hist[t].slept
        /\ EntryOf(t).maxUses = 2
        /\ EntryOf(t).uses = 1
        /\ EntryOf(t).expiresAt = tnow[t] + EntryOf(t).recovery

(* -------------------------------- C17 ---------------------------------- *)

\* C17: of the goroutines that call WaitOrSet at the same time on a key that
\* has no entry, the one that finds the key absent creates the entry, with
\* uses = 1 and the configuration it passed, and returns without sleeping;
\* one that finds the entry changes nothing and goes on as Wait; the entry is
\* created once, is there when all have returned, and its maxUses and
\* recovery are never written again.
C17_OneCreator ==
    /\ [](\A t \in Threads :
            (pc[t] = "wos_unlock" /\ ~found[t])
            => /\ EntryOf(t) = [mu |-> NoThread, uses |-> 1,
                                maxUses |-> argMax[t], recovery |-> argRec[t],
                                expiresAt |-> tnow[t] + argRec[t]]
               /\ ~hist[t].slept)
    /\ [](AllIdle => Present("a"))
    /\ [][/\ \A t \in Threads :
               /\ (pc[t] = "wos_body" /\ Steps(t))
                    => /\ found'[t] = Present(key[t])
                       /\ Present(key[t]) => entries' = entries
               /\ (pc[t] = "wos_unlock" /\ Steps(t))
                    => pc'[t] = IF found[t] THEN "wait_lock" ELSE "idle"
          /\ Present("a")
               => /\ "a" \in DOMAIN entries'
                  /\ entries'["a"].maxUses = entries["a"].maxUses
                  /\ entries'["a"].recovery = entries["a"].recovery]_vars

\* A WaitOrSet has found the entry another has created: it is about to go on
\* as Wait, and the entry has neither the maxUses nor the recovery it passed.
C17_Witness ==
    \E t \in Threads :
        /\ pc[t] = "wos_unlock"
        /\ found[t]
        /\ EntryOf(t).uses = 1
        /\ EntryOf(t).maxUses # argMax[t]
        /\ EntryOf(t).recovery # argRec[t]

(* -------------------------------- C18 ---------------------------------- *)

\* The attempt of Wait by goroutine t after a sleep, as a step, on an entry
\* that no Set has written, with a positive maxUses and a positive recovery.
Retry(t) ==
    /\ pc[t] = "wait_check"
    /\ Steps(t)
    /\ hist[t].slept
    /\ cfg[key[t]] \in {"set", "wos"}
    /\ EntryOf(t).maxUses >= 1
    /\ EntryOf(t).recovery >= 1

\* C18 as stated: the attempt of Wait that follows a denied attempt and the
\* sleep of the remaining time rolls the window over, and Wait returns,
\* unless a Set has written the entry.
C18_RetryRollsOver ==
    [][\A t \in Threads :
         Retry(t) => RolledOver(key[t], tnow[t]) /\ pc'[t] = "wait_unlock"]_vars

\* C18, amended: after a denied attempt Wait computes the time that remains
\* until expiresAt and sleeps for it, so that the sleep ends, and the next
\* attempt reads its instant now, no earlier than that expiresAt.  If the
\* window is still the one it was denied in and now > expiresAt, the attempt
\* rolls the window over and Wait returns; if now = expiresAt and no Set has
\* written the entry, the attempt is denied again, and Wait sleeps again.
C18_RetryAfterSleep ==
    [][\A t \in Threads :
         /\ (pc[t] = "wait_until" /\ Steps(t))
              => /\ waitTime'[t] = EntryOf(t).expiresAt - clock
                 /\ hist'[t].until = EntryOf(t).expiresAt
                 /\ pc'[t] = "wait_eunlock"
         /\ (pc[t] = "wait_tosleep" /\ Steps(t))
              => /\ wakeAt'[t] = clock + waitTime[t]
                 /\ wakeAt'[t] >= hist[t].until
                 /\ pc'[t] = "wait_sleep"
         /\ (pc[t] = "wait_sleep" /\ Steps(t))
              => clock >= wakeAt[t] /\ pc'[t] = "wait_elock"
         /\ (pc[t] = "wait_check" /\ Steps(t) /\ hist[t].slept)
              => tnow[t] >= hist[t].until
         /\ (pc[t] = "wait_check" /\ Steps(t) /\ hist[t].slept
               /\ EntryOf(t).expiresAt = hist[t].until)
              => /\ tnow[t] > hist[t].until
                      => RolledOver(key[t], tnow[t]) /\ pc'[t] = "wait_unlock"
                 /\ (tnow[t] = hist[t].until /\ cfg[key[t]] \in {"set", "wos"})
                      => entries' = entries /\ pc'[t] = "wait_until"]_vars

\* A Wait that was denied and slept until the end of the window has rolled
\* the window over at a later instant, on an entry no Set has written.
C18_Witness ==
    \E t \in Threads :
        /\ pc[t] = "wait_unlock"
        /\ hist[t].slept
        /\ hist[t].how = "roll"
        /\ cfg[key[t]] \in {"set", "wos"}
        /\ hist[t].until >= 1
        /\ tnow[t] > hist[t].until

(* -------------------------------- C19 ---------------------------------- *)

\* Goroutine t is at rl.mu.Lock(), at e.mu.Lock().
AtTableLock(t) == pc[t] \in {"set_lock", "allow_lock", "wait_lock", "wos_lock"}

AtEntryLock(t) == pc[t] \in {"allow_elock", "wait_elock"}

HoldsEntryLock(t) == \E k \in DOMAIN entries : entries[k].mu = t

\* Goroutine t waits for a lock that is held.
BlockedOnLock(t) ==
    \/ AtTableLock(t) /\ rlmu # NoThread
    \/ AtEntryLock(t) /\ EntryOf(t).mu # NoThread

\* C19: no goroutine holds the table lock and an entry lock at once, none
\* locks a lock it holds, none returns with a lock held; and while some call
\* is unfinished, some goroutine inside a call is not waiting for a lock.
C19_NoDeadlock ==
    /\ \A t \in Threads :
          /\ ~(rlmu = t /\ HoldsEntryLock(t))
          /\ AtTableLock(t) => rlmu # t
          /\ AtEntryLock(t) => EntryOf(t).mu # t
          /\ pc[t] = "idle" => (rlmu # t /\ ~HoldsEntryLock(t))
    /\ (\E t \in Threads : pc[t] # "idle")
         => \E t \in Threads : pc[t] # "idle" /\ ~BlockedOnLock(t)

\* One goroutine waits for the lock of an entry that the other holds inside
\* Wait, while the table lock is free.
C19_Witness ==
    \E t, u \in Threads :
        /\ t # u
        /\ AtEntryLock(t)
        /\ EntryOf(t).mu = u
        /\ pc[u] = "wait_check"
        /\ rlmu = NoThread

(* -------------------------------- C20 ---------------------------------- *)

\* C20: whenever the lock of an entry is free, uses of the entry is the
\* number of uses granted on the key since the last rollover, the use of the
\* rollover included, or since the creation of the entry, the use of a
\* creating WaitOrSet included.
C20_UsesCountGrants ==
    \A k \in DOMAIN entries :
        entries[k].mu = NoThread => entries[k].uses = win[k]

\* An entry at rest that was rolled over and then granted a second use.
C20_Witness ==
    \E k \in DOMAIN entries :
        /\ entries[k].mu = NoThread
        /\ Quiescent(k)
        /\ win[k] = 2
        /\ entries[k].uses = 2
        /\ entries[k].recovery = 1
        /\ entries[k].expiresAt >= 2

====
